---- MODULE Spec2Model ----
(***************************************************************************)
(* Model of the self-healing integrity subsystem of the "QuantumFortress"  *)
(* hash (src/Hashing/SelfHeal.cpp, src/Hashing/QuantumProtection.cpp).     *)
(*                                                                         *)
(* A uint64_t is a tuple of 8 bytes, least significant byte first, so that *)
(* the arithmetic of miniHash is the 64-bit arithmetic of the source       *)
(* (every product is reduced modulo 2^64) and no value is abstracted.      *)
(***************************************************************************)
EXTENDS Integers, Sequences, FiniteSets, TLC

\* ------------------------------------------------------------------ bounds
\* Number of events of one run after construction: healSave and healRecover
\* calls and corruption events (healDetect changes nothing and is not counted).
MaxEvents == 4
\* Number of calls of one run of the sponge alone (absorb, processString,
\* squeeze).
MaxCalls == 2
\* Number of healSave calls of a run that fills the snapshot ring.
MaxSaves == 5

\* ------------------------------------------------------- program constants
STATE_WORDS == 32
SNAP_WORDS == 32
MAX_SNAPSHOTS == 5
\* Number of leading words that fillChecksums / validateSnapshot cover.
CHECKED_WORDS == 8

\* --------------------------------------------------- 64-bit values (bytes)
Byte == 0..255

Zero64 == <<0, 0, 0, 0, 0, 0, 0, 0>>

\* 0xcbf29ce484222325
FNV_OFFSET == <<37, 35, 34, 132, 228, 156, 242, 203>>
\* FNV_PRIME = 0x100000001B3 = 2^40 + FNV_PRIME_LOW
FNV_PRIME_LOW == 435

\* MAX_LEN = 1ULL << 48
MAX_LEN == <<0, 0, 0, 0, 0, 0, 1, 0>>

\* qfInit constants: 0x6A09E667F3BCC908, 0xBB67AE8584CAA73B,
\* 0x3C6EF372FE94F82B, 0xA54FF53A5F1D36F1
IV0 == <<8, 201, 188, 243, 103, 230, 9, 106>>
IV1 == <<59, 167, 202, 132, 133, 174, 103, 187>>
IV2 == <<43, 248, 148, 254, 114, 243, 110, 60>>
IV3 == <<241, 54, 29, 95, 58, 245, 79, 165>>

RECURSIVE XorBits(_, _, _)
XorBits(a, b, n) ==
    IF n = 0 THEN 0
    ELSE ((a + b) % 2) + 2 * XorBits(a \div 2, b \div 2, n - 1)

\* XOR of two bytes, tabulated once.
XorTable == [a \in Byte |-> [b \in Byte |-> XorBits(a, b, 8)]]

\* x ^ y on 64-bit values, bytes i..8.
RECURSIVE XorFrom(_, _, _)
XorFrom(x, y, i) ==
    IF i > 8 THEN <<>>
    ELSE <<XorTable[x[i]][y[i]]>> \o XorFrom(x, y, i + 1)

Xor64(x, y) == XorFrom(x, y, 1)

\* x > y on 64-bit values, most significant byte first.
RECURSIVE GtFrom(_, _, _)
GtFrom(x, y, i) ==
    IF i = 0 THEN FALSE
    ELSE IF x[i] # y[i] THEN x[i] > y[i]
    ELSE GtFrom(x, y, i - 1)

Gt64(x, y) == GtFrom(x, y, 8)

\* hash *= FNV_PRIME, modulo 2^64: byte i of the product is byte i of
\* FNV_PRIME_LOW * h plus byte i - 5 of h (the 2^40 part) plus the carry; what
\* would carry out of byte 8 is dropped.
RECURSIVE MulLimbs(_, _, _)
MulLimbs(h, i, carry) ==
    IF i > 8 THEN <<>>
    ELSE LET t == h[i] * FNV_PRIME_LOW + (IF i > 5 THEN h[i - 5] ELSE 0) + carry
         IN  <<t % 256>> \o MulLimbs(h, i + 1, t \div 256)

MulPrime(h) == MulLimbs(h, 1, 0)

\* hash ^= byteVal; hash *= FNV_PRIME
HashByte(h, byteVal) ==
    MulPrime([h EXCEPT ![1] = XorTable[h[1]][byteVal]])

\* The inner loop of miniHash over the 8 bytes of one word (val & 0xFF,
\* val >>= 8: least significant byte first).
RECURSIVE HashBytes(_, _, _)
HashBytes(h, val, b) ==
    IF b > 8 THEN h
    ELSE HashBytes(HashByte(h, val[b]), val, b + 1)

HashWord(h, val) == HashBytes(h, val, 1)

RECURSIVE HashWords(_, _, _)
HashWords(h, data, i) ==
    IF i > Len(data) THEN h
    ELSE LET next == HashWord(h, data[i])
         IN  IF next[1] \in Byte THEN HashWords(next, data, i + 1) ELSE next

\* miniHash(data, count, key) as the source computes it, data being a
\* sequence of count words.
miniHashLoop(data, key) == HashWords(Xor64(FNV_OFFSET, key), data, 1)

\* --------------------------------------------------------- QFState (qs)
Words == 0..(STATE_WORDS - 1)
Checked == 0..(CHECKED_WORDS - 1)
Slots == 0..(MAX_SNAPSHOTS - 1)

\* qfInit: memset 0, four constants, absorbedBytes = 0.
qfInit ==
    [state |-> [i \in Words |->
                   CASE i = 0 -> IV0
                     [] i = 1 -> IV1
                     [] i = 2 -> IV2
                     [] i = 3 -> IV3
                     [] OTHER -> Zero64],
     absorbedBytes |-> Zero64]

\* ------------------------------------------------------- inputs of a run
\* Values createSnapshot's gen() may return: std::mt19937_64 ranges over all
\* of 0 .. 2^64-1, 0 included.  KeyA = 0x0123456789ABCDEF.
KeyA == <<239, 205, 171, 137, 103, 69, 35, 1>>
Keys == {Zero64, KeyA}

\* Runs in which gen() never returns 0.  KeyB = 0xFEDCBA9876543210.
KeyB == <<16, 50, 84, 118, 152, 186, 220, 254>>
NonZeroKeys == {KeyA, KeyB}

\* 0xDEADBEEFCAFEBABE, the mask of main's corruption demonstration
\* (fortress.state[5] ^= ...).
CORRUPT_MASK == <<190, 186, 254, 202, 239, 190, 173, 222>>

\* Sets of words one corruption event flips: the word of the demonstration,
\* all the checked words, one word outside the checked range.
CorruptTargets == {{5}, Checked, {CHECKED_WORDS}}

\* Values a corruption event may leave in absorbedBytes: 0, 2^48, 2^48 + 1.
MaxLenPlus1 == <<1, 0, 0, 0, 0, 0, 1, 0>>
LenVals == {Zero64, MAX_LEN, MaxLenPlus1}


\* The word sets successive corruption events can leave flipped.
FlipSets ==
    {{i \in Words : Cardinality({S \in T : i \in S}) % 2 = 1} :
        T \in SUBSET CorruptTargets}

Flipped(state, S) ==
    [i \in Words |->
        IF i \in S THEN Xor64(state[i], CORRUPT_MASK) ELSE state[i]]

\* ----------------------------------------------------------- snapshots
\* temp[0..8] of fillChecksums / validateSnapshot: 8 words then the length.
TempWords(state, len) ==
    [i \in 1..(CHECKED_WORDS + 1) |->
        IF i <= CHECKED_WORDS THEN state[i - 1] ELSE len]

\* Input of the sponge calls: n bytes 3, 10, 17, ... (7 * k + 3 modulo 256).
Pattern(n) == [k \in 1..n |-> (7 * (k - 1) + 3) % 256]

\* Short inputs: the words change and no window fills.
ShortInputs == {Pattern(1), Pattern(2)}

\* Word 0 after short inputs were XORed into it from offset 0, and the
\* lengths absorbed by then.
ShortWord(x) == [b \in 1..8 |-> IF b <= Len(x) THEN x[b] ELSE 0]
ShortMasks ==
    {Xor64(m1, m2) : m1, m2 \in {Zero64} \cup {ShortWord(x) : x \in ShortInputs}}
ShortStates ==
    {[qfInit.state EXCEPT ![0] = Xor64(@, m)] : m \in ShortMasks}
ShortLens == {[b \in 1..8 |-> IF b = 1 THEN n ELSE 0] : n \in 0..(2 * MaxSaves)}

\* miniHash is pure: its values on the arguments a run passes most often are
\* computed once; any other argument goes through the loop.
HashedData ==
    {<<Flipped(qfInit.state, S)[i]>> : S \in FlipSets, i \in Checked}
    \cup {TempWords(Flipped(qfInit.state, S), len) :
             S \in FlipSets, len \in LenVals}
    \cup {<<st[0]>> : st \in ShortStates}
    \cup {TempWords(st, len) : st \in ShortStates, len \in ShortLens}

HashedKeys == Keys \cup NonZeroKeys

HashTable ==
    [key \in HashedKeys |-> [data \in HashedData |-> miniHashLoop(data, key)]]

miniHash(data, key) ==
    IF key \in HashedKeys /\ data \in HashedData THEN HashTable[key][data]
    ELSE miniHashLoop(data, key)

\* Variant of fillChecksums: the full checksum is taken over the 8 words
\* alone (count 8 instead of 9), the length left out.
fillChecksumsNoLen(snap) ==
    [snap EXCEPT
        !.partialChecks = [i \in Checked |->
                              miniHash(<<snap.state[i]>>, snap.ephemeralKey)],
        !.fullChecksum = miniHash([i \in 1..CHECKED_WORDS |-> snap.state[i - 1]],
                                  snap.ephemeralKey)]

fillChecksums(snap) ==
    [snap EXCEPT
        !.partialChecks = [i \in Checked |->
                              miniHash(<<snap.state[i]>>, snap.ephemeralKey)],
        !.fullChecksum = miniHash(TempWords(snap.state, snap.totalLen),
                                  snap.ephemeralKey)]

\* createSnapshot; ephemeral is the value gen() returns.  Only
\* partialChecks[0..8) is ever written or read, so only it is kept.
createSnapshot(q, ephemeral) ==
    fillChecksums([state |-> q.state,
                   totalLen |-> q.absorbedBytes,
                   partialChecks |-> [i \in Checked |-> Zero64],
                   fullChecksum |-> Zero64,
                   ephemeralKey |-> ephemeral])

\* Variant of validateSnapshot: the hashes are recomputed from snap.state and
\* snap.totalLen instead of qs.
validateSnapshotSelf(q, snap) ==
    /\ \A i \in Checked :
          miniHash(<<snap.state[i]>>, snap.ephemeralKey) = snap.partialChecks[i]
    /\ miniHash(TempWords(snap.state, snap.totalLen), snap.ephemeralKey)
          = snap.fullChecksum

\* Variant of validateSnapshot: a snapshot whose key is 0 never validates.
validateSnapshotKeyed(q, snap) ==
    /\ snap.ephemeralKey # Zero64
    /\ \A i \in Checked :
          miniHash(<<q.state[i]>>, snap.ephemeralKey) = snap.partialChecks[i]
    /\ miniHash(TempWords(q.state, q.absorbedBytes), snap.ephemeralKey)
          = snap.fullChecksum

\* Variant of validateSnapshot: word 8 is compared with the captured word 8
\* as well.
validateSnapshotWide(q, snap) ==
    /\ \A i \in Checked :
          miniHash(<<q.state[i]>>, snap.ephemeralKey) = snap.partialChecks[i]
    /\ miniHash(TempWords(q.state, q.absorbedBytes), snap.ephemeralKey)
          = snap.fullChecksum
    /\ q.state[CHECKED_WORDS] = snap.state[CHECKED_WORDS]

validateSnapshot(q, snap) ==
    /\ \A i \in Checked :
          miniHash(<<q.state[i]>>, snap.ephemeralKey) = snap.partialChecks[i]
    /\ miniHash(TempWords(q.state, q.absorbedBytes), snap.ephemeralKey)
          = snap.fullChecksum

\* reinterpret_cast<const QFState*>(&snap.state): absorbedBytes lies at the
\* offset of totalLen (right after the 32 words).
SnapAsState(snap) == [state |-> snap.state, absorbedBytes |-> snap.totalLen]

\* ------------------------------------------------------ SelfHealContext
selfHealInit(c, q, ephemeral) ==
    LET initialSnap == createSnapshot(q, ephemeral)
    IN  [partialRepairs |-> 0,
         fullReverts |-> 0,
         totalReinits |-> 0,
         consecutiveAnomalies |-> 0,
         currentIndex |-> 0,
         snapshots |-> [i \in Slots |->
                          IF i = 0 THEN initialSnap
                          ELSE [c.snapshots[i] EXCEPT
                                  !.ephemeralKey = Zero64,
                                  !.fullChecksum = Zero64,
                                  !.partialChecks = [j \in Checked |-> Zero64]]],
         shadowCopy |-> initialSnap]

\* Variant of selfHealSaveSnapshot: the ring index does not advance.
selfHealSaveSnapshotStay(c, q, ephemeral) ==
    LET newSnap == createSnapshot(q, ephemeral)
        idx == c.currentIndex
    IN  [c EXCEPT !.currentIndex = idx,
                  !.snapshots[idx] = newSnap,
                  !.shadowCopy = newSnap]

\* Variant of selfHealSaveSnapshot: the shadow copy is not updated.
selfHealSaveSnapshotRingOnly(c, q, ephemeral) ==
    LET newSnap == createSnapshot(q, ephemeral)
        idx == (c.currentIndex + 1) % MAX_SNAPSHOTS
    IN  [c EXCEPT !.currentIndex = idx,
                  !.snapshots[idx] = newSnap]

selfHealSaveSnapshot(c, q, ephemeral) ==
    LET newSnap == createSnapshot(q, ephemeral)
        idx == (c.currentIndex + 1) % MAX_SNAPSHOTS
    IN  [c EXCEPT !.currentIndex = idx,
                  !.snapshots[idx] = newSnap,
                  !.shadowCopy = newSnap]

\* Variant of selfHealDetect: the length test is >= MAX_LEN instead of > .
selfHealDetectGe(q, c) ==
    IF validateSnapshot(q, c.shadowCopy) THEN FALSE
    ELSE IF ~ Gt64(MAX_LEN, q.absorbedBytes) THEN TRUE
    ELSE ~ \E i \in Slots : validateSnapshot(q, c.snapshots[i])

\* TRUE = anomaly, as in the source.
selfHealDetect(q, c) ==
    IF validateSnapshot(q, c.shadowCopy) THEN FALSE
    ELSE IF Gt64(q.absorbedBytes, MAX_LEN) THEN TRUE
    ELSE ~ \E i \in Slots : validateSnapshot(q, c.snapshots[i])

\* Variant of FindRevert: the ephemeralKey == 0 test is missing.
RECURSIVE FindRevertNoSkip(_, _)
FindRevertNoSkip(c, i) ==
    IF i >= MAX_SNAPSHOTS THEN -1
    ELSE LET idx == (c.currentIndex - i + MAX_SNAPSHOTS) % MAX_SNAPSHOTS
             snap == c.snapshots[idx]
         IN  IF validateSnapshot(SnapAsState(snap), snap) THEN idx
             ELSE FindRevertNoSkip(c, i + 1)

\* Variant of FindRevert: the walk goes forward from currentIndex.
RECURSIVE FindRevertForward(_, _)
FindRevertForward(c, i) ==
    IF i >= MAX_SNAPSHOTS THEN -1
    ELSE LET idx == (c.currentIndex + i) % MAX_SNAPSHOTS
             snap == c.snapshots[idx]
         IN  IF snap.ephemeralKey = Zero64 THEN FindRevertForward(c, i + 1)
             ELSE IF validateSnapshot(SnapAsState(snap), snap) THEN idx
             ELSE FindRevertForward(c, i + 1)

\* Variant of FindRevert: the newest entry is passed over, the walk trying
\* the slots from one behind currentIndex + MAX_SNAPSHOTS - 1 - i forward.
FindRevertOlder(c, i) == FindRevertForward(c, MAX_SNAPSHOTS - 1 - i)

\* PART B loop: the first slot, walking back from currentIndex, whose key is
\* not 0 and that validates against itself; -1 when the loop falls through.
RECURSIVE FindRevert(_, _)
FindRevert(c, i) ==
    IF i >= MAX_SNAPSHOTS THEN -1
    ELSE LET idx == (c.currentIndex - i + MAX_SNAPSHOTS) % MAX_SNAPSHOTS
             snap == c.snapshots[idx]
         IN  IF snap.ephemeralKey = Zero64 THEN FindRevert(c, i + 1)
             ELSE IF validateSnapshot(SnapAsState(snap), snap) THEN idx
             ELSE FindRevert(c, i + 1)

\* PART A loop: the words whose hash differs from the shadow's partial check.
SuspectWords(q, c) ==
    {i \in Checked :
        miniHash(<<q.state[i]>>, c.shadowCopy.ephemeralKey)
            # c.shadowCopy.partialChecks[i]}

\* Variant of PartialFix: suspect words are counted but not written back.
PartialFixSkip(q, c, suspect) == q

PartialFix(q, c, suspect) ==
    [q EXCEPT !.state = [i \in Words |->
                            IF i \in suspect THEN c.shadowCopy.state[i]
                            ELSE q.state[i]]]

\* Variant of FullRevert: only the checked words are copied back.
FullRevertCheckedOnly(q, c, idx, ephemeral) ==
    LET snap == c.snapshots[idx]
        q2 == [q EXCEPT !.state = [i \in Words |->
                            IF i \in Checked THEN snap.state[i] ELSE q.state[i]],
                        !.absorbedBytes = snap.totalLen]
        c2 == [c EXCEPT !.shadowCopy = snap, !.fullReverts = @ + 1]
    IN  [qs |-> q2,
         ctx |-> [selfHealSaveSnapshot(c2, q2, ephemeral) EXCEPT
                     !.consecutiveAnomalies = 0]]

\* Variant of FullRevert: fullReverts is not incremented.
FullRevertNoCount(q, c, idx, ephemeral) ==
    LET snap == c.snapshots[idx]
        q2 == [q EXCEPT !.state = snap.state, !.absorbedBytes = snap.totalLen]
        c2 == [c EXCEPT !.shadowCopy = snap]
    IN  [qs |-> q2,
         ctx |-> [selfHealSaveSnapshot(c2, q2, ephemeral) EXCEPT
                     !.consecutiveAnomalies = 0]]

\* Variant of FullRevert: absorbedBytes is left as it is.
FullRevertKeepLen(q, c, idx, ephemeral) ==
    LET snap == c.snapshots[idx]
        q2 == [q EXCEPT !.state = snap.state]
        c2 == [c EXCEPT !.shadowCopy = snap, !.fullReverts = @ + 1]
    IN  [qs |-> q2,
         ctx |-> [selfHealSaveSnapshot(c2, q2, ephemeral) EXCEPT
                     !.consecutiveAnomalies = 0]]

\* Variant of FullRevert: consecutiveAnomalies is not reset.
FullRevertNoReset(q, c, idx, ephemeral) ==
    LET snap == c.snapshots[idx]
        q2 == [q EXCEPT !.state = snap.state, !.absorbedBytes = snap.totalLen]
        c2 == [c EXCEPT !.shadowCopy = snap, !.fullReverts = @ + 1]
    IN  [qs |-> q2,
         ctx |-> selfHealSaveSnapshot(c2, q2, ephemeral)]

\* PART B body: memcpy of all of snap.state over qs.state, length, shadow,
\* counter, save.
FullRevert(q, c, idx, ephemeral) ==
    LET snap == c.snapshots[idx]
        q2 == [q EXCEPT !.state = snap.state, !.absorbedBytes = snap.totalLen]
        c2 == [c EXCEPT !.shadowCopy = snap, !.fullReverts = @ + 1]
    IN  [qs |-> q2,
         ctx |-> [selfHealSaveSnapshot(c2, q2, ephemeral) EXCEPT
                     !.consecutiveAnomalies = 0]]

\* Variant of ForceReinit: the context is not initialized again.
ForceReinitStateOnly(c, ephemeral) ==
    [qs |-> qfInit,
     ctx |-> [c EXCEPT !.totalReinits = @ + 1,
                       !.consecutiveAnomalies = 0]]

\* PART C: qfInit, selfHealInit, totalReinits++.
ForceReinit(c, ephemeral) ==
    [qs |-> qfInit,
     ctx |-> [selfHealInit(c, qfInit, ephemeral) EXCEPT
                 !.totalReinits = @ + 1,
                 !.consecutiveAnomalies = 0]]

\* selfHealAttemptRecovery; ephemeral is the key minted by the one
\* createSnapshot the call reaches.  Result: the state and context left
\* behind, the return value, and which part returned.
selfHealAttemptRecovery(q, c, ephemeral) ==
    LET c1 == [c EXCEPT !.consecutiveAnomalies = @ + 1]
        suspect == SuspectWords(q, c1)
        wordsFixed == Cardinality(suspect)
        q1 == PartialFix(q, c1, suspect)
        idx == FindRevert(c1, 0)
    IN  IF wordsFixed > 0 /\ ~ selfHealDetect(q1, c1)
        THEN [qs |-> q1,
              ctx |-> [selfHealSaveSnapshot(
                          [c1 EXCEPT !.partialRepairs = @ + 1], q1, ephemeral)
                       EXCEPT !.consecutiveAnomalies = 0],
              ret |-> TRUE, path |-> "partial", idx |-> -1]
        ELSE IF idx >= 0
        THEN LET r == FullRevert(q1, c1, idx, ephemeral)
             IN  [qs |-> r.qs, ctx |-> r.ctx,
                  ret |-> TRUE, path |-> "full", idx |-> idx]
        ELSE LET r == ForceReinit(c1, ephemeral)
             IN  [qs |-> r.qs, ctx |-> r.ctx,
                  ret |-> FALSE, path |-> "reinit", idx |-> -1]

\* Content of the context object before selfHealInit ran (main declares it
\* without an initializer): every word of it holds the same arbitrary fill.
GarbageFills == {CORRUPT_MASK}

GarbageSnapshot(g) ==
    [state |-> [i \in Words |-> g],
     totalLen |-> g,
     partialChecks |-> [i \in Checked |-> g],
     fullChecksum |-> g,
     ephemeralKey |-> g]

GarbageContext(g) ==
    [partialRepairs |-> 0, fullReverts |-> 0, totalReinits |-> 0,
     consecutiveAnomalies |-> 0, currentIndex |-> 0,
     snapshots |-> [i \in Slots |-> GarbageSnapshot(g)],
     shadowCopy |-> GarbageSnapshot(g)]

\* ================================================== the sponge (QFState)
\* The 24 round constants, each as 8 bytes, least significant first.
ROUND_CONSTANTS ==
    <<<<1, 0, 0, 0, 0, 0, 0, 0>>,
     <<130, 128, 0, 0, 0, 0, 0, 0>>,
     <<138, 128, 0, 0, 0, 0, 0, 128>>,
     <<0, 128, 0, 128, 0, 0, 0, 128>>,
     <<139, 128, 0, 0, 0, 0, 0, 0>>,
     <<1, 0, 0, 128, 0, 0, 0, 0>>,
     <<129, 128, 0, 128, 0, 0, 0, 128>>,
     <<9, 128, 0, 0, 0, 0, 0, 128>>,
     <<138, 0, 0, 0, 0, 0, 0, 0>>,
     <<136, 0, 0, 0, 0, 0, 0, 0>>,
     <<9, 128, 0, 128, 0, 0, 0, 0>>,
     <<10, 0, 0, 128, 0, 0, 0, 0>>,
     <<139, 128, 0, 128, 0, 0, 0, 0>>,
     <<139, 0, 0, 0, 0, 0, 0, 128>>,
     <<137, 128, 0, 0, 0, 0, 0, 128>>,
     <<3, 128, 0, 0, 0, 0, 0, 128>>,
     <<2, 128, 0, 0, 0, 0, 0, 128>>,
     <<128, 0, 0, 0, 0, 0, 0, 128>>,
     <<10, 128, 0, 0, 0, 0, 0, 0>>,
     <<10, 0, 0, 128, 0, 0, 0, 128>>,
     <<129, 128, 0, 128, 0, 0, 0, 128>>,
     <<128, 128, 0, 0, 0, 0, 0, 128>>,
     <<1, 0, 0, 128, 0, 0, 0, 0>>,
     <<8, 128, 0, 128, 0, 0, 0, 128>>>>

ROUNDS == 24
\* rateBytes of qfAbsorb and qfSqueeze.
RATE_BYTES == 128

Pow2 == <<1, 2, 4, 8, 16, 32, 64, 128, 256>>

\* x | y on 64-bit values, bytes i..8: on bytes a + b counts the common
\* bits twice, a ^ b not at all.
RECURSIVE OrFrom(_, _, _)
OrFrom(x, y, i) ==
    IF i > 8 THEN <<>>
    ELSE <<(x[i] + y[i] + XorTable[x[i]][y[i]]) \div 2>> \o OrFrom(x, y, i + 1)

Or64(x, y) == OrFrom(x, y, 1)

\* What x >> 64 evaluates to.  The shift count equals the width of the type,
\* which the language leaves undefined; a build either masks the count
\* (x >> 0 = x) or shifts every bit out (0).
Shift64Outcomes == {"masked", "cleared"}

ShiftRight64(x, outcome) == IF outcome = "masked" THEN x ELSE Zero64

\* The 8 bytes of a word, computed now.
Bytes8(w) == <<w[1], w[2], w[3], w[4], w[5], w[6], w[7], w[8]>>

\* (v << r) & 0xFF and v >> (8 - r) on bytes, tabulated once.
ShlTable == [r \in 0..7 |-> [v \in Byte |-> (v * Pow2[r + 1]) % 256]]
ShrTable == [r \in 0..7 |-> [v \in Byte |-> v \div Pow2[9 - r]]]

\* Bytes j..8 of x rotated left by 8 * q + r bits, lo and hi being the
\* table rows of r: byte j takes the low bits of byte j - q and the high
\* bits of the byte below it.
RECURSIVE RotFrom(_, _, _, _, _)
RotFrom(x, lo, hi, q, j) ==
    IF j > 8 THEN <<>>
    ELSE <<lo[x[((j + 7 - q) % 8) + 1]] + hi[x[((j + 14 - q) % 8) + 1]]>>
         \o RotFrom(x, lo, hi, q, j + 1)

\* rotl64(x, n) = (x << n) | (x >> (64 - n)) for 0 <= n < 64.  For n > 0 the
\* two halves share no bit: byte j takes the low bits of byte j - n/8 and the
\* high bits of the byte below it.  For n = 0 the right half is x >> 64.
rotl64(x, n, outcome) ==
    IF n = 0 THEN Or64(x, ShiftRight64(x, outcome))
    ELSE RotFrom(x, ShlTable[n % 8], ShrTable[n % 8], n \div 8, 1)

\* The second argument of the three rotl64 calls of a round.
PairAmountA(i, round) == (i + round) % 63
PairAmountB(i, round) == ((i * 3) + round) % 59
LaneAmount(i, round) == ((i + round) % 7) + 1

\* Variant of MixPairWith: b is mixed with the a of before the pair.
MixPairApart(s, i, round, outcome, a) ==
    [s EXCEPT ![i + 1] = a,
              ![i + 2] = rotl64(Xor64(s[i + 2], s[i + 1]),
                                PairAmountB(i, round), outcome)]

\* Step 2 of a round, one pair, given the new a = rotl64(a ^ b, ..):
\* b = rotl64(b ^ a, ..).  s is the sequence of the 32 words (word i at
\* position i + 1).
MixPairWith(s, i, round, outcome, a) ==
    [s EXCEPT ![i + 1] = a,
              ![i + 2] = rotl64(Xor64(s[i + 2], a),
                                PairAmountB(i, round), outcome)]

MixPair(s, i, round, outcome) ==
    MixPairWith(s, i, round, outcome,
                rotl64(Xor64(s[i + 1], s[i + 2]), PairAmountA(i, round),
                       outcome))

\* Step 2 of a round: for (i = 0; i < 32; i += 2).  (The test on Len(s)
\* has s computed before the next pair is taken up.)
RECURSIVE MixPairs(_, _, _, _)
MixPairs(s, i, round, outcome) ==
    IF Len(s) # STATE_WORDS \/ i >= STATE_WORDS THEN s
    ELSE MixPairs(MixPair(s, i, round, outcome), i + 2, round, outcome)

\* Step 3 of a round, in place from word i on: word i takes in word
\* (i + 5) % 32 as it is at that moment (already updated for i >= 27).
RECURSIVE CrossLane(_, _, _, _)
CrossLane(s, i, round, outcome) ==
    IF Len(s) # STATE_WORDS \/ i >= STATE_WORDS THEN s
    ELSE CrossLane(
             [s EXCEPT ![i + 1] =
                 Xor64(s[i + 1],
                       rotl64(s[((i + 5) % STATE_WORDS) + 1],
                              LaneAmount(i, round), outcome))],
             i + 1, round, outcome)

\* Step 1 of a round: the round constant XORed into word round % 32.
AddConstant(s, k, round) ==
    [s EXCEPT ![k] = Xor64(s[k], ROUND_CONSTANTS[round + 1])]

\* One round of qfPermutation.
PermRound(s, round, outcome) ==
    CrossLane(MixPairs(AddConstant(s, (round % STATE_WORDS) + 1, round),
                       0, round, outcome),
              0, round, outcome)

RECURSIVE PermRounds(_, _, _)
PermRounds(s, round, outcome) ==
    IF Len(s) # STATE_WORDS \/ round >= ROUNDS THEN s
    ELSE PermRounds(PermRound(s, round, outcome), round + 1, outcome)

\* The 32 words as a sequence, word i at position i + 1, and back.
RECURSIVE WordSeq(_, _)
WordSeq(state, n) ==
    IF n = 0 THEN <<>>
    ELSE Append(WordSeq(state, n - 1), Bytes8(state[n - 1]))

SeqWords(s) == [i \in Words |-> s[i + 1]]

\* qfPermutation on the words of a state: the 24 rounds.
qfPermutationRounds(state, outcome) ==
    SeqWords(PermRounds(WordSeq(state, STATE_WORDS), 0, outcome))

\* qfPermutation is pure: its values on the states a squeeze after short
\* inputs starts from, and on the states its first block leaves, are
\* computed once; any other state goes through the rounds.
PermutedStates ==
    ShortStates
    \cup {qfPermutationRounds(st, outcome) :
             outcome \in Shift64Outcomes, st \in ShortStates}

PermTable ==
    [outcome \in Shift64Outcomes |->
        [st \in PermutedStates |-> qfPermutationRounds(st, outcome)]]

PermLookup(table, state, outcome) ==
    IF state \in DOMAIN table THEN table[state]
    ELSE qfPermutationRounds(state, outcome)

qfPermutation(state, outcome) ==
    PermLookup(PermTable[outcome], state, outcome)

\* x + n modulo 2^64 (uint64_t += size_t), n a natural number.
RECURSIVE AddLimbs(_, _, _)
AddLimbs(x, i, carry) ==
    IF i > 8 THEN <<>>
    ELSE <<(x[i] + carry) % 256>> \o AddLimbs(x, i + 1, (x[i] + carry) \div 256)

Add64(x, n) == AddLimbs(x, 1, n)

\* reinterpret_cast<uint8_t*>(qs.state)[k] on a little-endian host (the x86
\* the AVX2 code of this repository targets): byte k % 8 of word k / 8.
StateByte(state, k) == state[k \div 8][(k % 8) + 1]

\* Variant of XorInto: the bytes are XORed in behind the first toXor bytes
\* of the window instead of from offset 0.
XorIntoShifted(state, data, pos, toXor) ==
    [i \in Words |->
        [b \in 1..8 |->
            IF 8 * i + b - 1 >= toXor /\ 8 * i + b - 1 < 2 * toXor
            THEN XorTable[state[i][b]][data[pos + 8 * i + b - toXor]]
            ELSE state[i][b]]]

\* The first toXor bytes of the state XORed with data[pos + 1 ..].
XorInto(state, data, pos, toXor) ==
    [i \in Words |->
        IF 8 * i >= toXor THEN state[i]
        ELSE [b \in 1..8 |->
                 IF 8 * i + b > toXor THEN state[i][b]
                 ELSE XorTable[state[i][b]][data[pos + 8 * i + b]]]]

Min(a, b) == IF a < b THEN a ELSE b

\* Variant of AbsorbLoop: the permutation runs after a short window too.
RECURSIVE AbsorbLoopAlways(_, _, _, _, _)
AbsorbLoopAlways(q, data, pos, perms, outcome) ==
    IF Len(data) - pos <= 0 THEN [qs |-> q, perms |-> perms]
    ELSE AbsorbLoopAlways(
             [q EXCEPT !.state =
                 qfPermutation(XorInto(@, data, pos,
                                       Min(Len(data) - pos, RATE_BYTES)),
                               outcome)],
             data, pos + Min(Len(data) - pos, RATE_BYTES), perms + 1, outcome)

\* The while loop of qfAbsorb from offset pos of data (len = Len(data) - pos
\* bytes left); perms counts the qfPermutation calls made so far.
RECURSIVE AbsorbLoop(_, _, _, _, _)
AbsorbLoop(q, data, pos, perms, outcome) ==
    IF Len(data) - pos <= 0 THEN [qs |-> q, perms |-> perms]
    ELSE IF Len(data) - pos >= RATE_BYTES
    THEN AbsorbLoop(
             [q EXCEPT !.state =
                 qfPermutation(XorInto(@, data, pos, RATE_BYTES), outcome)],
             data, pos + RATE_BYTES, perms + 1, outcome)
    ELSE [qs |-> [q EXCEPT !.state =
                     XorInto(@, data, pos, Min(Len(data) - pos, RATE_BYTES))],
          perms |-> perms]

\* qfAbsorb(qs, data, len): absorbedBytes += len, then the loop.  Result:
\* the state left behind and the number of qfPermutation calls.
qfAbsorb(q, data, outcome) ==
    AbsorbLoop([q EXCEPT !.absorbedBytes = Add64(@, Len(data))],
               data, 0, 0, outcome)

\* The read-out loop of qfSqueeze on the local copy: toCopy bytes of the
\* state go out, and the copy is permuted when more are wanted.
RECURSIVE SqueezeLoop(_, _, _, _, _)
SqueezeLoop(state, outLen, out, perms, outcome) ==
    IF outLen <= 0 THEN [state |-> state, out |-> out, perms |-> perms]
    ELSE IF outLen > RATE_BYTES
    THEN SqueezeLoop(qfPermutation(state, outcome), outLen - RATE_BYTES,
                     out \o [k \in 1..RATE_BYTES |-> StateByte(state, k - 1)],
                     perms + 1, outcome)
    ELSE [state |-> state,
          out |-> out \o [k \in 1..Min(outLen, RATE_BYTES) |->
                             StateByte(state, k - 1)],
          perms |-> perms]

\* Variant of SqueezeResult: the caller's state takes the words of the
\* local copy (the permutations run on the caller's state).
SqueezeResultInPlace(qsConst, r) ==
    [qs |-> [state |-> r.state, absorbedBytes |-> qsConst.absorbedBytes],
     copy |-> [state |-> r.state, absorbedBytes |-> qsConst.absorbedBytes],
     out |-> r.out,
     perms |-> r.perms]

\* What a qfSqueeze call leaves, r being the end of its loop: the caller's
\* state after the call, the local copy at return, the bytes written to
\* out, the number of qfPermutation calls.
SqueezeResult(qsConst, r) ==
    [qs |-> qsConst,
     copy |-> [state |-> r.state, absorbedBytes |-> qsConst.absorbedBytes],
     out |-> r.out,
     perms |-> r.perms]

\* Variant of qfSqueeze: the read-out starts from the copy as it is, without
\* the permutation before it.
qfSqueezeNoPad(qsConst, outLen, outcome) ==
    SqueezeResult(qsConst,
                  SqueezeLoop(qsConst.state, outLen, <<>>, 0, outcome))

\* qfSqueeze(qsConst, out, outLen): qs = qsConst is a local copy, permuted
\* once before the read-out.
qfSqueeze(qsConst, outLen, outcome) ==
    SqueezeResult(qsConst,
                  SqueezeLoop(qfPermutation(qsConst.state, outcome), outLen,
                              <<>>, 1, outcome))

\* __BYTE_ORDER__ == __ORDER_BIG_ENDIAN__ of the build.
HostBigEndian == FALSE

\* toLittleEndian64 on the 8 bytes of a word as they lie in memory.
toLittleEndian64(w) ==
    IF HostBigEndian THEN [b \in 1..8 |-> w[9 - b]] ELSE w

\* ensureLittleEndianBuffer: a copy of the buffer, each 64-bit word of it
\* converted when the length is a multiple of 8.
ensureLittleEndianBuffer(data) ==
    IF Len(data) % 8 = 0
    THEN [k \in 1..Len(data) |->
             toLittleEndian64(SubSeq(data, 8 * ((k - 1) \div 8) + 1,
                                     8 * ((k - 1) \div 8) + 8))[((k - 1) % 8) + 1]]
    ELSE data

processRaw(q, data, outcome) ==
    qfAbsorb(q, ensureLittleEndianBuffer(data), outcome)

\* The bytes of uint64_t strLen = str.size() as they lie in memory.
SizeBytes(n) ==
    IF HostBigEndian THEN [b \in 1..8 |-> Add64(Zero64, n)[9 - b]]
    ELSE Add64(Zero64, n)

\* processRaw on the state an earlier call r left, the permutations added up.
ThenRaw(r, data, outcome) ==
    [processRaw(r.qs, data, outcome) EXCEPT !.perms = @ + r.perms]

\* processString: the 64-bit length field, then the characters.
processString(q, str, outcome) ==
    ThenRaw(processRaw(q, SizeBytes(Len(str)), outcome), str, outcome)

\* chunkSize of processFile as main calls it (the default argument).
CHUNK_SIZE == 4096

\* processFile on a file that opens: processRaw on each chunk read, until a
\* read returns no bytes.
RECURSIVE FileChunks(_, _, _, _)
FileChunks(r, content, pos, outcome) ==
    IF Len(content) - pos <= 0 THEN r
    ELSE FileChunks(
             ThenRaw(r, SubSeq(content, pos + 1,
                               pos + Min(Len(content) - pos, CHUNK_SIZE)),
                     outcome),
             content, pos + Min(Len(content) - pos, CHUNK_SIZE), outcome)

processFile(q, content, outcome) ==
    FileChunks([qs |-> q, perms |-> 0], content, 0, outcome)

\* MAGIC / MAGIC_SCALAR of speedOptimize, bytes least significant first.
MAGIC ==
    <<<<165, 165, 165, 165, 165, 165, 165, 165>>,
      <<90, 90, 90, 90, 90, 90, 90, 90>>,
      <<0, 0, 0, 0, 255, 255, 255, 255>>,
      <<239, 190, 173, 222, 120, 86, 52, 18>>>>

\* 0xABCDEF
LEN_MAGIC == <<239, 205, 171, 0, 0, 0, 0, 0>>

\* x << 1 on 64 bits, bytes j..8: the top bit of byte 8 is shifted out.
RECURSIVE ShlFrom(_, _)
ShlFrom(x, j) ==
    IF j > 8 THEN <<>>
    ELSE <<ShlTable[1][x[j]] + (IF j > 1 THEN ShrTable[1][x[j - 1]] ELSE 0)>>
         \o ShlFrom(x, j + 1)

\* One word of speedOptimize: val = state[i] ^ MAGIC[i % 4], then
\* (val << 1) ^ val; the AVX2 path and the scalar path compute the same.
OptimizeWord(w, i) == Xor64(ShlFrom(Xor64(w, MAGIC[(i % 4) + 1]), 1),
                            Xor64(w, MAGIC[(i % 4) + 1]))

speedOptimize(q) ==
    [state |-> [i \in Words |-> OptimizeWord(q.state[i], i)],
     absorbedBytes |-> Xor64(q.absorbedBytes, LEN_MAGIC)]

\* ------------------------------------------------------------- variables
VARIABLES
    qs,        \* the QFState "fortress" of main
    ctx,       \* the SelfHealContext "healCtx" of main
    lastOp,    \* the call or event that produced this state
    lastRet,   \* its return value (detect: TRUE = anomaly; recover: success)
    lastPath,  \* recover: "partial", "full" or "reinit"
    lastIdx,   \* recover: the ring slot a full revert restored from
    preQs,     \* qs when the last call was entered
    preCtx,    \* ctx when the last call was entered
    nEvents,   \* calls and corruption events so far, healDetect excepted
    trail      \* the sponge calls so far: input, permutations made, output

vars == <<qs, ctx, lastOp, lastRet, lastPath, lastIdx, preQs, preCtx,
          nEvents, trail>>

\* main: qfInit(fortress); selfHealInit(healCtx, fortress), gen() returning
\* one of keys.
InitOf(keys) ==
    \E key \in keys, g \in GarbageFills :
        /\ qs = qfInit
        /\ ctx = selfHealInit(GarbageContext(g), qfInit, key)
        /\ lastOp = "init"
        /\ lastRet = FALSE
        /\ lastPath = "none"
        /\ lastIdx = -1
        /\ preQs = qs
        /\ preCtx = ctx
        /\ nEvents = 0
        /\ trail = <<>>

Init == InitOf(Keys)

\* selfHealSaveSnapshot(healCtx, fortress), gen() returning one of keys.
SaveOf(keys) ==
    /\ \E key \in keys :
          ctx' = selfHealSaveSnapshot(ctx, qs, key)
    /\ lastOp' = "save"
    /\ lastRet' = FALSE
    /\ lastPath' = "none"
    /\ lastIdx' = -1
    /\ preQs' = qs
    /\ preCtx' = ctx
    /\ nEvents' = nEvents + 1
    /\ UNCHANGED <<qs, trail>>

HealSave == nEvents < MaxEvents /\ SaveOf(Keys)

\* selfHealDetect(fortress, healCtx): reads only.
HealDetect ==
    /\ lastOp # "detect"
    /\ lastOp' = "detect"
    /\ lastRet' = selfHealDetect(qs, ctx)
    /\ lastPath' = "none"
    /\ lastIdx' = -1
    /\ preQs' = qs
    /\ preCtx' = ctx
    /\ UNCHANGED <<qs, ctx, nEvents, trail>>

\* selfHealAttemptRecovery(fortress, healCtx), gen() returning one of keys.
RecoverOf(keys) ==
    /\ \E key \in keys :
          \E r \in {selfHealAttemptRecovery(qs, ctx, key)} :
              /\ qs' = r.qs
              /\ ctx' = r.ctx
              /\ lastRet' = r.ret
              /\ lastPath' = r.path
              /\ lastIdx' = r.idx
    /\ lastOp' = "recover"
    /\ preQs' = qs
    /\ preCtx' = ctx
    /\ nEvents' = nEvents + 1
    /\ UNCHANGED trail

HealRecover == nEvents < MaxEvents /\ RecoverOf(Keys)

Corrupted ==
    /\ lastOp' = "corrupt"
    /\ lastRet' = FALSE
    /\ lastPath' = "none"
    /\ lastIdx' = -1
    /\ preQs' = qs'
    /\ preCtx' = ctx'
    /\ nEvents' = nEvents + 1
    /\ UNCHANGED trail

\* Memory corruption of state words: state[i] ^= CORRUPT_MASK for i in S.
CorruptWords ==
    /\ nEvents < MaxEvents
    /\ \E S \in CorruptTargets :
          qs' = [qs EXCEPT !.state = Flipped(qs.state, S)]
    /\ ctx' = ctx
    /\ Corrupted

\* Memory corruption of the byte counter.
CorruptLen ==
    /\ nEvents < MaxEvents
    /\ \E v \in LenVals \ {qs.absorbedBytes} :
          qs' = [qs EXCEPT !.absorbedBytes = v]
    /\ ctx' = ctx
    /\ Corrupted

\* Wiped ring: the key field of every ring entry set to 0.
WipeRing ==
    /\ nEvents < MaxEvents
    /\ \E i \in Slots : ctx.snapshots[i].ephemeralKey # Zero64
    /\ ctx' = [ctx EXCEPT !.snapshots = [i \in Slots |->
                  [ctx.snapshots[i] EXCEPT !.ephemeralKey = Zero64]]]
    /\ qs' = qs
    /\ Corrupted

Next ==
    \/ HealSave
    \/ HealDetect
    \/ HealRecover
    \/ CorruptWords
    \/ CorruptLen
    \/ WipeRing

Spec == Init /\ [][Next]_vars

\* ------------------------------------- runs with a damaged ring entry
\* Memory corruption of the ring: a captured word of the newest entry
\* (snapshots[currentIndex].state[5] ^= CORRUPT_MASK), its tags untouched.
CorruptSlot ==
    /\ nEvents < MaxEvents
    /\ ctx' = [ctx EXCEPT !.snapshots[ctx.currentIndex].state =
                              Flipped(@, {5})]
    /\ qs' = qs
    /\ Corrupted

NextRing ==
    \/ Next
    \/ CorruptSlot

SpecRing == Init /\ [][NextRing]_vars

\* ---------------------------------------------------- runs of the sponge
\* Lengths around the 128-byte window: none, short, one window, two windows
\* and a short tail.
AbsorbLens == {0, 1, 2, 128, 257}
AbsorbInputs == {Pattern(n) : n \in AbsorbLens}

\* Strings: "", "\x00", "\x01", "a", "ab".
StringInputs == {<<>>, <<0>>, <<1>>, <<97>>, <<97, 98>>}

\* outLen of a squeeze: nothing, main's DIGEST_SIZE, more than one window.
SqueezeLens == {0, 64, 130}

\* What every sponge call leaves in the bookkeeping variables.
SpongeCall(op, data, n, out, perms) ==
    /\ trail' = Append(trail, [op |-> op, from |-> qs, data |-> data,
                               n |-> n, out |-> out, perms |-> perms])
    /\ lastOp' = op
    /\ lastRet' = FALSE
    /\ lastPath' = "none"
    /\ lastIdx' = -1
    /\ preQs' = qs
    /\ preCtx' = ctx
    /\ nEvents' = nEvents + 1
    /\ UNCHANGED ctx

AbsorbOf(inputs) ==
    \E data \in inputs, outcome \in Shift64Outcomes :
        \E r \in {qfAbsorb(qs, data, outcome)} :
            /\ qs' = r.qs
            /\ SpongeCall("absorb", data, 0, <<>>, r.perms)

StringOf(inputs) ==
    \E str \in inputs, outcome \in Shift64Outcomes :
        \E r \in {processString(qs, str, outcome)} :
            /\ qs' = r.qs
            /\ SpongeCall("string", str, 0, <<>>, r.perms)

SqueezeOf(lens) ==
    \E n \in lens, outcome \in Shift64Outcomes :
        \E r \in {qfSqueeze(qs, n, outcome)} :
            /\ qs' = r.qs
            /\ SpongeCall("squeeze", <<>>, n, r.out, r.perms)

\* qfAbsorb(fortress, data, len)
Absorb == nEvents < MaxCalls /\ AbsorbOf(AbsorbInputs)

\* processString(fortress, str)
StringIn == nEvents < MaxCalls /\ StringOf(StringInputs)

\* main after qfInit(fortress), the context not yet initialized.
InitSponge ==
    /\ qs = qfInit
    /\ ctx = GarbageContext(CORRUPT_MASK)
    /\ lastOp = "init"
    /\ lastRet = FALSE
    /\ lastPath = "none"
    /\ lastIdx = -1
    /\ preQs = qs
    /\ preCtx = ctx
    /\ nEvents = 0
    /\ trail = <<>>

NextSponge ==
    \/ Absorb
    \/ StringIn

SpecSponge == InitSponge /\ [][NextSponge]_vars

\* ------------------------------------- runs that absorb and heal
RunAbsorb == nEvents < MaxEvents /\ AbsorbOf(ShortInputs)

NextRun ==
    \/ RunAbsorb
    \/ HealSave
    \/ HealDetect
    \/ HealRecover

SpecRun == Init /\ [][NextRun]_vars

\* ----------------------------------- runs that absorb and squeeze
\* qfSqueeze(fortress, out, outLen)
Squeeze == nEvents < MaxEvents /\ SqueezeOf(SqueezeLens)

NextSqueeze ==
    \/ RunAbsorb
    \/ Squeeze

SpecSqueeze == InitSponge /\ [][NextSqueeze]_vars

\* --------------------------------------------------- main from end to end
\* Contents of the file of mode "file".
FileInputs == AbsorbInputs

\* DIGEST_SIZE of main.
DIGEST_SIZE == 64

\* Mode "string", or mode "file" with the fallback to a line of input:
\* processString(fortress, inputData).
MainString == lastOp = "init" /\ StringOf(StringInputs)

\* Mode "file": processFile(fortress, filename).
MainFile ==
    /\ lastOp = "init"
    /\ \E content \in FileInputs, outcome \in Shift64Outcomes :
          \E r \in {processFile(qs, content, outcome)} :
              /\ qs' = r.qs
              /\ SpongeCall("file", content, 0, <<>>, r.perms)

\* selfHealSaveSnapshot(healCtx, fortress) after the input.
MainSave == lastOp \in {"string", "file"} /\ HealSave

\* if (selfHealDetect(fortress, healCtx)) selfHealAttemptRecovery(...).
MainCheck ==
    /\ lastOp = "save"
    /\ \E anomaly \in {selfHealDetect(qs, ctx)} :
          /\ lastRet' = anomaly
          /\ IF anomaly
             THEN \E key \in Keys :
                     \E r \in {selfHealAttemptRecovery(qs, ctx, key)} :
                         /\ qs' = r.qs
                         /\ ctx' = r.ctx
                         /\ lastPath' = r.path
                         /\ lastIdx' = r.idx
             ELSE /\ UNCHANGED <<qs, ctx>>
                  /\ lastPath' = "none"
                  /\ lastIdx' = -1
    /\ lastOp' = "check"
    /\ preQs' = qs
    /\ preCtx' = ctx
    /\ nEvents' = nEvents + 1
    /\ UNCHANGED trail

\* speedOptimize(fortress)
MainOptimize ==
    /\ lastOp = "check"
    /\ qs' = speedOptimize(qs)
    /\ lastOp' = "optimize"
    /\ lastRet' = FALSE
    /\ lastPath' = "none"
    /\ lastIdx' = -1
    /\ preQs' = qs
    /\ preCtx' = ctx
    /\ nEvents' = nEvents + 1
    /\ UNCHANGED <<ctx, trail>>

\* qfSqueeze(fortress, digest.data(), DIGEST_SIZE)
MainSqueeze == lastOp = "optimize" /\ SqueezeOf({DIGEST_SIZE})

NextMain ==
    \/ MainString
    \/ MainFile
    \/ MainSave
    \/ MainCheck
    \/ MainOptimize
    \/ MainSqueeze

SpecMain == Init /\ [][NextMain]_vars

\* --------------- runs in which only the live state is corrupted
\* Memory corruption that hits a state word and the byte counter at once.
CorruptBoth ==
    /\ nEvents < MaxEvents
    /\ \E v \in LenVals \ {qs.absorbedBytes} :
          qs' = [qs EXCEPT !.state = Flipped(qs.state, {5}),
                           !.absorbedBytes = v]
    /\ ctx' = ctx
    /\ Corrupted

\* The context is written by selfHealInit, selfHealSaveSnapshot and
\* selfHealAttemptRecovery alone.
NextLive ==
    \/ HealSave
    \/ HealDetect
    \/ HealRecover
    \/ CorruptWords
    \/ CorruptLen
    \/ CorruptBoth

SpecLive == Init /\ [][NextLive]_vars

\* The same runs, gen() never returning 0.
InitKeyed == InitOf(NonZeroKeys)

KeyedSave == nEvents < MaxEvents /\ SaveOf(NonZeroKeys)

KeyedRecover == nEvents < MaxEvents /\ RecoverOf(NonZeroKeys)

NextKeyed ==
    \/ KeyedSave
    \/ HealDetect
    \/ KeyedRecover
    \/ CorruptWords
    \/ CorruptLen
    \/ CorruptBoth

SpecKeyed == InitKeyed /\ [][NextKeyed]_vars

\* ------------------------------------- runs that fill the snapshot ring
\* The state changes, is saved, changes again, ..: each absorb adds to
\* absorbedBytes, so the saved states differ pairwise.
RingAbsorb ==
    /\ lastOp \in {"init", "save"}
    /\ Len(trail) < MaxSaves
    /\ AbsorbOf(ShortInputs)

\* selfHealSaveSnapshot(healCtx, fortress) after each change.
RingSave == lastOp = "absorb" /\ SaveOf(Keys)

\* The state as it was when the save before last, .., the initial snapshot
\* was taken: entry j of the trail starts from the state saved j - 1 saves
\* after selfHealInit.
SavedState(j) == IF j < Len(trail) THEN trail[j + 1].from ELSE qs

\* The live state falls back to the state of k saves ago (k = 0: it stays);
\* the trail keeps the state it had.
Rollback ==
    /\ lastOp = "save"
    /\ \E k \in 0..Len(trail) :
          /\ qs' = SavedState(Len(trail) - k)
          /\ SpongeCall("rollback", <<>>, k, <<>>, 0)

\* selfHealDetect(fortress, healCtx) on the state fallen back to.
RingDetect == lastOp = "rollback" /\ HealDetect

NextRetain ==
    \/ RingAbsorb
    \/ RingSave
    \/ Rollback
    \/ RingDetect

SpecRetain == Init /\ [][NextRetain]_vars

\* --------------------------------- runs that squeeze around the window
\* Inputs before the squeeze: a short one, and one that ends on a full
\* 128-byte window.
DigestInputs == {Pattern(1), Pattern(RATE_BYTES)}

\* outLen: nothing, one byte, one window exactly, one byte more, two
\* windows, two windows and a byte.
DigestLens == {0, 1, RATE_BYTES, RATE_BYTES + 1, 2 * RATE_BYTES,
               2 * RATE_BYTES + 1}

\* qfAbsorb(fortress, data, len), once, first.
DigestAbsorb == lastOp = "init" /\ AbsorbOf(DigestInputs)

\* qfSqueeze(fortress, out, outLen), at most twice in a run.
DigestSqueeze ==
    /\ \A j \in 1..(Len(trail) - 1) : trail[j].op # "squeeze"
    /\ SqueezeOf(DigestLens)

NextDigest ==
    \/ DigestAbsorb
    \/ DigestSqueeze

SpecDigest == InitSponge /\ [][NextDigest]_vars

\* ------------------------------ qfPermutation taken one round at a time
\* Inputs absorbed before the permutation is entered.
RoundInputs == {Pattern(n) : n \in {0, 1, 2, 5, RATE_BYTES}}

\* qfPermutation is entered on the state an absorb has XORed a window into
\* (from qfAbsorb), or on the copy of such a state (from qfSqueeze).
InitRounds ==
    /\ \E data \in RoundInputs :
          qs = [qfInit EXCEPT
                   !.state = XorInto(@, data, 0, Len(data)),
                   !.absorbedBytes = Add64(@, Len(data))]
    /\ ctx = GarbageContext(CORRUPT_MASK)
    /\ lastOp = "init"
    /\ lastRet = FALSE
    /\ lastPath = "none"
    /\ lastIdx = -1
    /\ preQs = qs
    /\ preCtx = ctx
    /\ nEvents = 0
    /\ trail = <<>>

\* One pass of the round loop: round = the number of rounds made so far.
RoundStep ==
    /\ Len(trail) < ROUNDS
    /\ \E outcome \in Shift64Outcomes :
          /\ qs' = [qs EXCEPT !.state =
                       SeqWords(PermRound(WordSeq(@, STATE_WORDS),
                                          Len(trail), outcome))]
          /\ SpongeCall("round", <<>>, Len(trail), <<>>, 0)

NextRounds == RoundStep

SpecRounds == InitRounds /\ [][NextRounds]_vars

\* ================================================================ claims
\* The checked words in which a state differs from what a snapshot captured.
CheckedDiff(q, snap) == {i \in Checked : q.state[i] # snap.state[i]}

\* The state holds exactly what the snapshot captured of the covered part.
Matches(q, snap) ==
    /\ CheckedDiff(q, snap) = {}
    /\ q.absorbedBytes = snap.totalLen

\* A ring entry the full revert would accept.
Candidate(snap) ==
    /\ snap.ephemeralKey # Zero64
    /\ validateSnapshot(SnapAsState(snap), snap)

RingWiped(c) == \A i \in Slots : c.snapshots[i].ephemeralKey = Zero64

\* ---- C1
C1_Pre ==
    /\ lastOp = "recover"
    /\ Cardinality(CheckedDiff(preQs, preCtx.shadowCopy)) = 1
    /\ preQs.absorbedBytes = preCtx.shadowCopy.totalLen

\* C1: when healRecover is entered with exactly one checked word differing
\* from the saved (shadow) value and absorbedBytes as saved, it returns true,
\* that word is back at its saved value, partialRepairs has grown by exactly
\* 1 and fullReverts and totalReinits are unchanged.
C1_PartialRepair ==
    C1_Pre =>
        /\ lastRet
        /\ \A i \in CheckedDiff(preQs, preCtx.shadowCopy) :
              qs.state[i] = preCtx.shadowCopy.state[i]
        /\ ctx.partialRepairs = preCtx.partialRepairs + 1
        /\ ctx.fullReverts = preCtx.fullReverts
        /\ ctx.totalReinits = preCtx.totalReinits

C1_Witness == C1_Pre /\ lastPath = "partial" /\ qs.state # preQs.state

\* ---- C2
C2_Pre ==
    /\ lastOp = "recover"
    /\ RingWiped(preCtx)

C3_Pre ==
    /\ lastOp = "detect"
    /\ CheckedDiff(qs, ctx.shadowCopy) # {}
    /\ qs.absorbedBytes = ctx.shadowCopy.totalLen
    /\ \A i \in Slots : ~ Matches(qs, ctx.snapshots[i])

\* C3: when checked words differ from what the last save captured
\* (absorbedBytes as saved) and the state holds the captured values of no ring
\* entry, healDetect reports an anomaly.
C3_TamperDetected == C3_Pre => lastRet

C3_Witness == C3_Pre /\ lastRet

\* ---- C4
\* C4: right after healInit or healSave the state validates against the
\* snapshot just captured (the shadow), whatever the key and also when
\* absorbedBytes exceeds 2^48, and healDetect reports no anomaly.
C4_RoundTrip ==
    lastOp \in {"init", "save"} =>
        /\ validateSnapshot(qs, ctx.shadowCopy)
        /\ ~ selfHealDetect(qs, ctx)

C4_Witness ==
    /\ lastOp = "save"
    /\ Gt64(qs.absorbedBytes, MAX_LEN)
    /\ ~ selfHealDetect(qs, ctx)

\* ---- C5
C5_Pre == lastOp = "recover" /\ lastPath = "full"

\* C5 as stated: a full revert leaves words[8..32) as they were when
\* healRecover was called.
C5_Original ==
    C5_Pre => \A i \in Words \ Checked : qs.state[i] = preQs.state[i]

\* C5 amended: a full revert overwrites all 32 words and absorbedBytes with
\* what the ring entry it reverts to captured.
C5_Amended ==
    C5_Pre =>
        /\ lastIdx \in Slots
        /\ qs.state = preCtx.snapshots[lastIdx].state
        /\ qs.absorbedBytes = preCtx.snapshots[lastIdx].totalLen

C5_Witness ==
    /\ C5_Pre
    /\ \E i \in Words \ Checked : qs.state[i] # preQs.state[i]

\* ---- C6
\* C6: healRecover ends in exactly one of partial repair, full revert and
\* reinitialization; it returns false exactly when it reinitialized the state;
\* when it returns true exactly one of partialRepairs, fullReverts has grown
\* by exactly 1 and totalReinits is unchanged.
C6_Outcomes ==
    lastOp = "recover" =>
        /\ lastPath \in {"partial", "full", "reinit"}
        /\ lastRet <=> lastPath # "reinit"
        /\ ~ lastRet => qs = qfInit
        /\ lastRet =>
              /\ ctx.totalReinits = preCtx.totalReinits
              /\ \/ /\ lastPath = "partial"
                    /\ ctx.partialRepairs = preCtx.partialRepairs + 1
                    /\ ctx.fullReverts = preCtx.fullReverts
                 \/ /\ lastPath = "full"
                    /\ ctx.partialRepairs = preCtx.partialRepairs
                    /\ ctx.fullReverts = preCtx.fullReverts + 1

C6_Witness == lastOp = "recover" /\ lastRet /\ lastPath = "full"

\* ---- C7
\* C7: when the partial repair does not succeed and no ring entry is a
\* candidate, healRecover returns false and leaves the init state, a freshly
\* initialized context (snapshot of that state in slot 0 and as shadow, slots
\* 1..4 sentinel), consecutiveAnomalies 0 and totalReinits one greater than
\* before the call.
C7_Original ==
    (/\ lastOp = "recover"
     /\ lastPath # "partial"
     /\ \A i \in Slots : ~ Candidate(preCtx.snapshots[i])) =>
        /\ ~ lastRet
        /\ qs = qfInit
        /\ ctx.currentIndex = 0
        /\ ctx.shadowCopy = ctx.snapshots[0]
        /\ Matches(qs, ctx.shadowCopy)
        /\ validateSnapshot(qs, ctx.shadowCopy)
        /\ \A i \in Slots \ {0} : ctx.snapshots[i].ephemeralKey = Zero64
        /\ ctx.consecutiveAnomalies = 0
        /\ ctx.totalReinits = preCtx.totalReinits + 1

\* ---- C8
\* C8: no healSave, healDetect or healRecover call lowers partialRepairs,
\* fullReverts or totalReinits.
C8_Original ==
    lastOp \in {"save", "detect", "recover"} =>
        /\ ctx.partialRepairs >= preCtx.partialRepairs
        /\ ctx.fullReverts >= preCtx.fullReverts
        /\ ctx.totalReinits >= preCtx.totalReinits

\* ---- C9
ShadowValid == validateSnapshot(qs, ctx.shadowCopy)

RingValid == \E i \in Slots : validateSnapshot(qs, ctx.snapshots[i])

\* C9: healDetect reports Healthy exactly when the state validates against
\* the shadow, or absorbedBytes does not exceed 2^48 and the state validates
\* against some ring entry.
C9_DetectVerdict ==
    lastOp = "detect" =>
        (~ lastRet <=>
            (ShadowValid \/ (~ Gt64(qs.absorbedBytes, MAX_LEN) /\ RingValid)))

\* Shadow fails, length above 2^48, a ring entry validates: anomalous.
C9_Witness ==
    /\ lastOp = "detect"
    /\ ~ ShadowValid
    /\ Gt64(qs.absorbedBytes, MAX_LEN)
    /\ RingValid
    /\ lastRet

\* ---- C10
\* C10: healDetect reports Healthy only if the shadow or a ring entry whose
\* key is not 0 validates, and a full revert never restores from an entry
\* whose key is 0.
C10_Original ==
    /\ (lastOp = "detect" /\ ~ lastRet) =>
          \/ ShadowValid
          \/ \E i \in Slots :
                /\ ctx.snapshots[i].ephemeralKey # Zero64
                /\ validateSnapshot(qs, ctx.snapshots[i])
    /\ (lastOp = "recover" /\ lastPath = "full") =>
          preCtx.snapshots[lastIdx].ephemeralKey # Zero64

\* ---- C11
\* C11: right after a save (healSave, or the save that ends a successful
\* healRecover) the ring entry at currentIndex has a key different from 0.
C11_Original ==
    (lastOp = "save" \/ (lastOp = "recover" /\ lastRet)) =>
        ctx.snapshots[ctx.currentIndex].ephemeralKey # Zero64

\* ---- C13
\* Words outside the checked range that a corruption may have altered.
HiddenFlips == {{CHECKED_WORDS}, {STATE_WORDS - 1}, Words \ Checked}

Back(c, k) == (c.currentIndex - k + MAX_SNAPSHOTS) % MAX_SNAPSHOTS

\* C19: when healRecover gets past the partial repair, it reverts exactly
\* when some ring entry is usable (key not 0, captured words and length
\* matching its own tags), and then to the first usable one in the order
\* currentIndex, currentIndex - 1, ... (wrapping): the state takes that
\* entry's captured words and length, fullReverts grows by 1 and a new
\* snapshot of the restored state is saved in the next slot and as shadow.
C19_RevertOrder ==
    (lastOp = "recover" /\ lastPath # "partial") =>
        /\ lastPath = "full" <=>
              \E i \in Slots : Candidate(preCtx.snapshots[i])
        /\ lastPath = "full" =>
              \E k \in Slots :
                 /\ lastIdx = Back(preCtx, k)
                 /\ Candidate(preCtx.snapshots[lastIdx])
                 /\ \A j \in 0..(k - 1) :
                       ~ Candidate(preCtx.snapshots[Back(preCtx, j)])
                 /\ Matches(qs, preCtx.snapshots[lastIdx])
                 /\ ctx.fullReverts = preCtx.fullReverts + 1
                 /\ ctx.currentIndex
                       = (preCtx.currentIndex + 1) % MAX_SNAPSHOTS
                 /\ validateSnapshot(qs, ctx.snapshots[ctx.currentIndex])
                 /\ ctx.shadowCopy = ctx.snapshots[ctx.currentIndex]

\* A revert that passed over the newest entry because its captured words no
\* longer match its tags, and over an entry with key 0.
C19_Witness ==
    /\ lastOp = "recover"
    /\ lastPath = "full"
    /\ lastIdx # preCtx.currentIndex
    /\ preCtx.snapshots[preCtx.currentIndex].ephemeralKey # Zero64
    /\ ~ Candidate(preCtx.snapshots[preCtx.currentIndex])

\* ---- C20
C20_Pre ==
    /\ lastOp = "recover"
    /\ preCtx.shadowCopy = preCtx.snapshots[preCtx.currentIndex]
    /\ CheckedDiff(preQs, preCtx.shadowCopy) = {}
    /\ preQs.absorbedBytes # preCtx.shadowCopy.totalLen

\* C20: partialRepairs grows only when a word was overwritten from the shadow
\* and healDetect then reports Healthy, otherwise healRecover goes on to the
\* full revert; and when after a save only absorbedBytes differs from the
\* shadow, healRecover overwrites no word, leaves partialRepairs as it was,
\* reverts fully, sets absorbedBytes back to the saved length and returns true.
C20_Original ==
    /\ (lastOp = "recover" /\ lastPath = "partial") =>
          /\ SuspectWords(preQs, preCtx) # {}
          /\ ~ selfHealDetect(qs, preCtx)
    /\ (lastOp = "recover" /\ ctx.partialRepairs # preCtx.partialRepairs
           /\ lastRet) => lastPath = "partial"
    /\ C20_Pre =>
          /\ \A i \in Checked : qs.state[i] = preQs.state[i]
          /\ ctx.partialRepairs = preCtx.partialRepairs
          /\ lastPath = "full"
          /\ qs.absorbedBytes = preCtx.shadowCopy.totalLen
          /\ lastRet

\* ---- C12
\* The last sponge call of the run.
LastCall == trail[Len(trail)]

\* C12 as stated: over qfAbsorb, healSave, healDetect and healRecover
\* calls absorbedBytes never decreases except when healRecover reinitializes
\* (returns false), and then it is 0; qfAbsorb of n bytes raises it by n.
C12_Original ==
    /\ Gt64(preQs.absorbedBytes, qs.absorbedBytes) =>
          (lastOp = "recover" /\ ~ lastRet)
    /\ (lastOp = "recover" /\ ~ lastRet) => qs.absorbedBytes = Zero64
    /\ lastOp = "absorb" =>
          qs.absorbedBytes = Add64(preQs.absorbedBytes, Len(LastCall.data))

\* C12: qfAbsorb of n bytes adds n to absorbedBytes (modulo 2^64); healSave,
\* healDetect and a partial repair leave it as it is; a full revert sets it
\* to the length captured in the snapshot it reverts to, which can be lower,
\* and returns true; a reinitialization sets it to 0 and returns false.
C12_LenHistory ==
    /\ lastOp = "absorb" =>
          qs.absorbedBytes = Add64(preQs.absorbedBytes, Len(LastCall.data))
    /\ lastOp \in {"save", "detect"} =>
          qs.absorbedBytes = preQs.absorbedBytes
    /\ (lastOp = "recover" /\ lastPath = "partial") =>
          (lastRet /\ qs.absorbedBytes = preQs.absorbedBytes)
    /\ (lastOp = "recover" /\ lastPath = "full") =>
          (lastRet /\ qs.absorbedBytes = preCtx.snapshots[lastIdx].totalLen)
    /\ (lastOp = "recover" /\ lastPath = "reinit") =>
          (~ lastRet /\ qs.absorbedBytes = Zero64)
    /\ (lastOp = "recover" /\ ~ lastRet) => lastPath = "reinit"

\* A full revert that returns true and lowers absorbedBytes: bytes were
\* absorbed after the snapshot was taken.
C12_Witness ==
    /\ lastOp = "recover"
    /\ lastPath = "full"
    /\ lastRet
    /\ Gt64(preQs.absorbedBytes, qs.absorbedBytes)
    /\ Len(trail) > 0

\* ---- C14
\* C14: qfAbsorb of n bytes adds n to absorbedBytes and runs the permutation
\* floor(n / 128) times, once after each full 128-byte window and not after
\* a short final window: 128 bytes give one permutation, and the empty
\* input leaves the words and absorbedBytes as they were.
C14_AbsorbCount ==
    lastOp = "absorb" =>
        LET n == Len(LastCall.data)
        IN  /\ qs.absorbedBytes = Add64(preQs.absorbedBytes, n)
            /\ LastCall.perms = n \div RATE_BYTES
            /\ n = RATE_BYTES => LastCall.perms = 1
            /\ n < RATE_BYTES =>
                   qs.state = XorInto(preQs.state, LastCall.data, 0, n)
            /\ n = 0 => qs = preQs

\* An absorb of two full windows and a short tail: two permutations.
C14_Witness ==
    /\ lastOp = "absorb"
    /\ Len(LastCall.data) = 2 * RATE_BYTES + 1
    /\ LastCall.perms = 2
    /\ qs.state # preQs.state

\* ---- C15
\* The sponge call before the last one.
PrevCall == trail[Len(trail) - 1]

\* Byte k of an input, absent bytes counting as 0.
InByte(x, k) == IF k < Len(x) THEN x[k + 1] ELSE 0

\* Two qfAbsorb calls in a row, each of fewer than 128 bytes.
C15_Pre ==
    /\ Len(trail) >= 2
    /\ LastCall.op = "absorb"
    /\ PrevCall.op = "absorb"
    /\ lastOp = "absorb"
    /\ Len(LastCall.data) < RATE_BYTES
    /\ Len(PrevCall.data) < RATE_BYTES

\* C15: qfAbsorb(x) followed by qfAbsorb(y), both shorter than 128 bytes,
\* runs no permutation and leaves every state byte k equal to its value
\* before the first call XOR x[k] XOR y[k] (absent bytes counting as 0): both
\* inputs go in from offset 0 and bytes from max(|x|, |y|) on are unchanged.
C15_NotResumable ==
    C15_Pre =>
        /\ PrevCall.perms = 0
        /\ LastCall.perms = 0
        /\ LastCall.from.state = preQs.state
        /\ \A k \in 0..(8 * STATE_WORDS - 1) :
              StateByte(qs.state, k) =
                  XorTable[XorTable[StateByte(PrevCall.from.state, k)]
                                   [InByte(PrevCall.data, k)]]
                          [InByte(LastCall.data, k)]

\* Two short non-empty inputs in a row whose result differs from the one
\* call on their concatenation.
C15_Witness ==
    /\ C15_Pre
    /\ Len(PrevCall.data) > 0
    /\ Len(LastCall.data) > Len(PrevCall.data)
    /\ qs.state # qfAbsorb(PrevCall.from, PrevCall.data \o LastCall.data,
                            "masked").qs.state

\* ---- C16
\* C16: qfSqueeze leaves all 32 words and absorbedBytes of the state it is
\* given as they were, for every outLen, 0 included, and writes outLen
\* bytes; squeezes of the same state return the same bytes (for different
\* outLen, the same bytes up to the shorter length).
C16_SqueezeFrame ==
    lastOp = "squeeze" =>
        /\ qs = preQs
        /\ Len(LastCall.out) = LastCall.n
        /\ \A j \in 1..(Len(trail) - 1) :
              (trail[j].op = "squeeze" /\ trail[j].from = qs) =>
                  \A k \in 1..Min(trail[j].n, LastCall.n) :
                      trail[j].out[k] = LastCall.out[k]

\* A squeeze of more than one block repeated on the same state after a
\* squeeze in between.
C16_Witness ==
    /\ lastOp = "squeeze"
    /\ Len(trail) >= 3
    /\ LastCall.n > RATE_BYTES
    /\ PrevCall.op = "squeeze"
    /\ PrevCall.n < LastCall.n
    /\ trail[Len(trail) - 2].op = "squeeze"
    /\ trail[Len(trail) - 2].n = LastCall.n
    /\ trail[Len(trail) - 2].from = qs
    /\ trail[Len(trail) - 2].out = LastCall.out

\* ---- C18
\* C18 as stated: from the same state, processString leaves different state
\* words for any two distinct strings shorter than 128 bytes.
C18_Original ==
    lastOp = "string" =>
        \A other \in StringInputs \ {LastCall.data} :
            processString(preQs, other, "masked").qs.state # qs.state

\* ---- C17
\* What the input of a run leaves in the state, by the calls alone.
InputCall == trail[1]

Ingested(outcome) ==
    IF InputCall.op = "string"
    THEN processString(qfInit, InputCall.data, outcome).qs
    ELSE processFile(qfInit, InputCall.data, outcome).qs

\* C17: in a run of main without corruption the state after the input, the
\* save and the check is the one the input alone determines, and so are
\* the final state words and the DIGEST_SIZE bytes squeezed, whatever keys
\* the snapshots were given.
C17_Determinism ==
    /\ lastOp \in {"string", "file", "save", "check"} =>
          qs = Ingested("masked")
    /\ lastOp = "check" => ~ lastRet
    /\ lastOp \in {"optimize", "squeeze"} =>
          qs = speedOptimize(Ingested("masked"))
    /\ lastOp = "squeeze" =>
          /\ Len(LastCall.out) = DIGEST_SIZE
          /\ LastCall.out = qfSqueeze(speedOptimize(Ingested("masked")),
                                      DIGEST_SIZE, "masked").out

\* The end of a run whose two snapshots were given different keys, the
\* second one the key 0.
C17_Witness ==
    /\ lastOp = "squeeze"
    /\ Len(InputCall.data) > 0
    /\ ctx.snapshots[0].ephemeralKey # Zero64
    /\ ctx.snapshots[1].ephemeralKey = Zero64
    /\ ctx.currentIndex = 1
    /\ Len(LastCall.out) = DIGEST_SIZE

\* ---- C21
\* Number of healSave calls made since selfHealInit, in a run that fills
\* the ring.
Saves == IF lastOp \in {"rollback", "detect"} THEN Len(trail) - 1
         ELSE IF lastOp = "absorb" THEN Len(trail) - 1
         ELSE Len(trail)

\* C21: after healInit and n saves of pairwise different states s0..sn,
\* currentIndex is n mod 5, ring slot i holds the most recent of the saved
\* states whose number is i mod 5 (the one of 5 saves before it is gone),
\* and healDetect on a live state equal to s(n-k) reports Healthy exactly
\* when k <= 4.
C21_Retention ==
    /\ lastOp \in {"save", "rollback", "detect"} =>
          /\ ctx.currentIndex = Saves % MAX_SNAPSHOTS
          /\ \A j \in 0..Saves :
                j + MAX_SNAPSHOTS > Saves =>
                    /\ ctx.snapshots[j % MAX_SNAPSHOTS].state
                           = SavedState(j).state
                    /\ ctx.snapshots[j % MAX_SNAPSHOTS].totalLen
                           = SavedState(j).absorbedBytes
          /\ \A j, k \in 0..Saves :
                j # k => SavedState(j) # SavedState(k)
    /\ lastOp = "detect" =>
          /\ qs = SavedState(Saves - LastCall.n)
          /\ ~ Gt64(qs.absorbedBytes, MAX_LEN)
          /\ (~ lastRet) <=> (LastCall.n <= MAX_SNAPSHOTS - 1)

\* Five saves after healInit, the live state back at the initial state:
\* its snapshot is gone and healDetect reports an anomaly.
C21_Witness ==
    /\ lastOp = "detect"
    /\ Saves = MAX_SNAPSHOTS
    /\ LastCall.n = MAX_SNAPSHOTS
    /\ qs = qfInit
    /\ ctx.currentIndex = 0
    /\ lastRet

\* ---- C22
\* The first len bytes of a state, as memcpy reads them.
Window(state, len) == [b \in 1..len |-> StateByte(state, b - 1)]

\* The bytes of out from offset pos on are, window by window, the first
\* bytes of state, of the permuted state, and so on.
RECURSIVE BlocksFrom(_, _, _)
BlocksFrom(state, out, pos) ==
    IF pos >= Len(out) THEN TRUE
    ELSE /\ SubSeq(out, pos + 1, Min(Len(out), pos + RATE_BYTES))
               = Window(state, Min(Len(out) - pos, RATE_BYTES))
         /\ BlocksFrom(qfPermutation(state, "masked"), out, pos + RATE_BYTES)

\* ceil(n / 128)
WindowsOf(n) == (n + RATE_BYTES - 1) \div RATE_BYTES

\* C22: qfSqueeze writes exactly outLen bytes; bytes 128k .. 128k + 127 of
\* them (cut at outLen) are the first 128 bytes of the given state after
\* k + 1 permutations; the number of permutations is max(1, ceil(outLen /
\* 128)), one being made before any output, also for outLen 0 and after an
\* absorb that ended on a full window.
C22_SqueezeBlocks ==
    lastOp = "squeeze" =>
        /\ Len(LastCall.out) = LastCall.n
        /\ LastCall.perms = IF LastCall.n = 0 THEN 1 ELSE WindowsOf(LastCall.n)
        /\ LastCall.perms >= 1
        /\ BlocksFrom(qfPermutation(LastCall.from.state, "masked"),
                      LastCall.out, 0)

\* Two windows and a byte squeezed right after an absorb of exactly one
\* window: three permutations.
C22_Witness ==
    /\ lastOp = "squeeze"
    /\ Len(trail) = 2
    /\ PrevCall.op = "absorb"
    /\ Len(PrevCall.data) = RATE_BYTES
    /\ PrevCall.perms = 1
    /\ LastCall.n = 2 * RATE_BYTES + 1
    /\ LastCall.perms = 3
    /\ Len(LastCall.out) = 2 * RATE_BYTES + 1

\* ---- C23
\* A round written out by what each word depends on.  t: the words after
\* the round constant went in; Mixed: after pair mixing, b taking in the
\* new a; Low: words 0..26 after diffusion, reading word i + 5 as pair
\* mixing left it; words 27..31 read words 0..4 as diffusion left them.
WithConstant(st, round) ==
    [i \in Words |->
        IF i = round % STATE_WORDS
        THEN Xor64(st[i], ROUND_CONSTANTS[round + 1]) ELSE st[i]]

NewA(t, i, round) ==
    rotl64(Xor64(t[i], t[i + 1]), PairAmountA(i, round), "masked")

NewB(t, i, round) ==
    rotl64(Xor64(t[i + 1], NewA(t, i, round)), PairAmountB(i, round),
           "masked")

Mixed(t, round) ==
    [i \in Words |->
        IF i % 2 = 0 THEN NewA(t, i, round) ELSE NewB(t, i - 1, round)]

Low(m, i, round) ==
    Xor64(m[i], rotl64(m[i + 5], LaneAmount(i, round), "masked"))

Diffused(m, round) ==
    [i \in Words |->
        IF i + 5 < STATE_WORDS THEN Low(m, i, round)
        ELSE Xor64(m[i], rotl64(Low(m, (i + 5) % STATE_WORDS, round),
                                LaneAmount(i, round), "masked"))]

RoundByDependency(st, round) ==
    Diffused(Mixed(WithConstant(st, round), round), round)

\* C23: every round leaves the words its data dependencies prescribe: in
\* pair mixing b takes in the already updated a, in diffusion words 0..26
\* read word i + 5 as pair mixing left it and words 27..31 read the word
\* at (i + 5) mod 32 as diffusion of the same round left it; 24 such
\* rounds make up qfPermutation.
C23_RoundOrder ==
    lastOp = "round" =>
        /\ qs.state = RoundByDependency(LastCall.from.state, LastCall.n)
        /\ qs.absorbedBytes = LastCall.from.absorbedBytes
        /\ Len(trail) = ROUNDS =>
              qs.state = qfPermutation(trail[1].from.state, "masked")

\* The last round of a permutation of a state that absorbed 5 bytes: words
\* 27..31 differ from what the words left by pair mixing alone would give.
C23_Witness ==
    /\ lastOp = "round"
    /\ Len(trail) = ROUNDS
    /\ LastCall.n = ROUNDS - 1
    /\ trail[1].from.absorbedBytes = SizeBytes(5)
    /\ qs.state # LastCall.from.state
    /\ \E i \in Words :
          /\ i + 5 >= STATE_WORDS
          /\ qs.state[i] #
                Xor64(Mixed(WithConstant(LastCall.from.state, LastCall.n),
                            LastCall.n)[i],
                      rotl64(Mixed(WithConstant(LastCall.from.state,
                                                LastCall.n),
                                   LastCall.n)[(i + 5) % STATE_WORDS],
                             LaneAmount(i, LastCall.n), "masked"))

\* ---- C24
\* C24: consecutiveAnomalies is 0 whenever no healRecover call is under
\* way: healInit leaves 0, healRecover adds 1 on entry (so it holds 1 inside
\* the call, never more) and leaves 0 on each of its three ways out.
C24_AnomalyCounter ==
    /\ ctx.consecutiveAnomalies = 0
    /\ lastOp = "recover" =>
          /\ lastPath \in {"partial", "full", "reinit"}
          /\ preCtx.consecutiveAnomalies + 1 = 1

\* A second recovery in one run, by a full revert, the first one having
\* been a partial repair.
C24_Witness ==
    /\ lastOp = "recover"
    /\ lastPath = "full"
    /\ preCtx.partialRepairs = 1
    /\ ctx.fullReverts = 1
    /\ ctx.consecutiveAnomalies = 0

\* ---- C25
\* C25: after any sequence of healInit, healSave and healRecover calls,
\* whatever happens to the live state in between, currentIndex is within
\* 0..4 and the shadow equals ring[currentIndex] in every field.
C25_ShadowIsNewest ==
    /\ ctx.currentIndex \in Slots
    /\ ctx.shadowCopy = ctx.snapshots[ctx.currentIndex]

\* A full revert to an entry older than the newest one: the shadow first
\* takes that entry, then the snapshot of the reverted state.
C25_Witness ==
    /\ lastOp = "recover"
    /\ lastPath = "full"
    /\ lastIdx # preCtx.currentIndex
    /\ ctx.currentIndex = (preCtx.currentIndex + 1) % MAX_SNAPSHOTS
    /\ ctx.shadowCopy = ctx.snapshots[ctx.currentIndex]
    /\ ctx.shadowCopy # preCtx.shadowCopy

\* ---- C27
\* C27: in runs where no minted key is 0 and the context is written by
\* the heal calls alone, every healRecover returns true and totalReinits
\* stays 0, whatever happened to the words and absorbedBytes of the live
\* state.
C27_NoReinit ==
    /\ ctx.totalReinits = 0
    /\ lastOp = "recover" => (lastRet /\ lastPath \in {"partial", "full"})

\* A recovery from a state with all checked words flipped and
\* absorbedBytes beyond 2^48.
C27_Witness ==
    /\ lastOp = "recover"
    /\ lastRet
    /\ CheckedDiff(preQs, preCtx.shadowCopy) = Checked
    /\ Gt64(preQs.absorbedBytes, MAX_LEN)
    /\ ctx.totalReinits = 0

\* ---- C28
\* The snapshots a recovery may restore from according to the claim: the
\* shadow and the ring entries whose key is not the sentinel, as they were
\* when healRecover was called.
Trusted(c) ==
    {c.shadowCopy}
    \cup {c.snapshots[i] : i \in {j \in Slots :
                                   c.snapshots[j].ephemeralKey # Zero64}}

\* C28 as stated: when healRecover returns true, words 0..7 and
\* absorbedBytes of the state it leaves are the captured words 0..7 and
\* totalLen of the shadow or of a non-sentinel ring entry held on entry.
C28_Original ==
    (lastOp = "recover" /\ lastRet) =>
        \E snap \in Trusted(preCtx) : Matches(qs, snap)

\* ---- C26
\* C26: right after healRecover has returned, by whichever path and from
\* whatever state and context, healDetect on the state and context it left
\* reports no anomaly.
C26_HealthyAfter ==
    lastOp = "recover" => ~ selfHealDetect(qs, ctx)

\* A reinitialization from a configuration healDetect reported as an
\* anomaly.
C26_Witness ==
    /\ lastOp = "recover"
    /\ lastPath = "reinit"
    /\ selfHealDetect(preQs, preCtx)
    /\ ~ selfHealDetect(qs, ctx)

\* ---- C29
\* The amounts rotl64 is called with in one round.
RoundAmounts(round) ==
    {PairAmountA(i, round) : i \in {j \in Words : j % 2 = 0}}
    \cup {PairAmountB(i, round) : i \in {j \in Words : j % 2 = 0}}
    \cup {LaneAmount(i, round) : i \in Words}

\* C29 as stated: in every round made, rotl64 was called only with amounts
\* n, 1 <= n <= 63, so that 64 - n is never 64.
C29_Original ==
    lastOp = "round" =>
        \A n \in RoundAmounts(LastCall.n) : 1 <= n /\ n <= 63
====
